---- MODULE Spec2Model ----
(***************************************************************************)
(* A model of the Kundali calculation engine (src/kundali_calculations.py). *)
(*                                                                         *)
(* Longitudes are scaled integers: a longitude is a pair <<deg, frac>>     *)
(* standing for deg + frac / Scale degrees, with frac in 0..Scale-1 (deg   *)
(* is the floor, so -0.5 degrees is <<-1, Scale \div 2>>).  The resolution  *)
(* is that of the literal 13.3333333 of the source.                        *)
(*                                                                         *)
(* Instants are whole minutes (ticks) counted from the midnight of day 0,  *)
(* the resolution of the "%H:%M" birth time; a duration the source rounds  *)
(* to a microsecond (timedelta) is rounded to a tick the same way.         *)
(***************************************************************************)
EXTENDS Integers, Sequences, FiniteSets, TLC

VARIABLES
    pc,                  \* position in calculate_kundali
    jd_birth,            \* the birth instant handed to the dasha engine
    moon_lon,            \* the ephemeris' sidereal Moon longitude
    dasha_periods,       \* result of calculate_vimshottari_dasha
    now_dasha,           \* datetime.utcnow() as read by get_current_dasha
    current_dasha,       \* result of get_current_dasha
    now_antar,           \* datetime.utcnow() as read by calculate_antardasha
    antardasha_periods,  \* the list calculate_antardasha builds
    current_antardasha,  \* result of calculate_antardasha
    nakshatra,           \* result of calculate_nakshatra
    report,              \* result of make_personalized_report, then base_report
    eclip_deg,           \* one body's longitude in planetary_positions
    asc_deg,             \* the ascendant longitude of calculate_houses
    houses,              \* the 12 cusps of calculate_houses
    s_num,               \* the body's sign number
    planetary_sign,      \* planetary_signs[planet]
    planet_in_house,     \* planet_in_houses[planet]
    asc_sign_num,        \* the ascendant's sign number
    asc_sign_str,        \* the ascendant's sign name
    planet,              \* the body the loops over the 9 bodies are followed for
    house_rulers,        \* result of determine_house_rulers
    ephemeris,           \* the longitudes swe.calc_ut answers with, per body code
    planetary_positions, \* result of calculate_planetary_positions
    swe_calls,           \* the calls made to the swisseph module, in order
    date_of_birth,       \* the birth date, as a day number
    time_of_birth,       \* the time string handed to calculate_kundali
    timezone,            \* the timezone name handed to calculate_kundali
    time_24,             \* result of convert_to_24_hour
    raised,              \* the exception raised in the request, if any
    request_time,        \* data.time_of_birth of the request to /generate-kundali
    time_24_hour,        \* result of app.convert_to_24_hour
    location_results,    \* location_response["results"] of the geocoder
    zone_name,           \* timezone_response["zoneName"], "None" when the key is missing
    response             \* the status code and detail the client receives

dashaVars == <<pc, jd_birth, moon_lon, dasha_periods, now_dasha, current_dasha,
               now_antar, antardasha_periods, current_antardasha, nakshatra, report>>
chartVars == <<eclip_deg, asc_deg, houses, s_num, planetary_sign, planet_in_house,
               asc_sign_num, asc_sign_str>>
rulerVars == <<planet, house_rulers>>
sweVars == <<ephemeris, planetary_positions, swe_calls>>
timeVars == <<date_of_birth, time_of_birth, timezone, time_24, raised>>
httpVars == <<request_time, time_24_hour, location_results, zone_name, response>>
vars == <<dashaVars, chartVars, rulerVars, sweVars, timeVars, httpVars>>

(***************************************************************************)
(* Bounds of the model.                                                    *)
(***************************************************************************)
\* births are drawn from the days 0..MaxBirthDay
MaxBirthDay == 0
\* calculate_antardasha reads the clock 0..MaxClockDelta ticks after get_current_dasha
MaxClockDelta == 1

(***************************************************************************)
(* Units.                                                                  *)
(***************************************************************************)
Scale == 10^7
DayTicks == 24 * 60
\* timedelta(days=years * 365.25), in ticks
YearTicks == (36525 * DayTicks) \div 100

LonLE(a, b) == a[1] < b[1] \/ (a[1] = b[1] /\ a[2] <= b[2])
LonLT(a, b) == a[1] < b[1] \/ (a[1] = b[1] /\ a[2] < b[2])
\* L + 360.0 and L % 360 (Python's %, whose result is in [0, 360))
LonPlus360(L) == <<L[1] + 360, L[2]>>
LonMod360(L) == <<L[1] % 360, L[2]>>

Min(S) == CHOOSE x \in S : \A y \in S : x <= y

(***************************************************************************)
(* SIGNS and sign_name.                                                    *)
(***************************************************************************)
SIGNS ==
    << "Aries", "Taurus", "Gemini", "Cancer", "Leo", "Virgo", "Libra", "Scorpio",
       "Sagittarius", "Capricorn", "Aquarius", "Pisces" >>

sign_name(sign_number) ==
    IF 1 <= sign_number /\ sign_number <= 12 THEN SIGNS[sign_number] ELSE "Unknown"

(***************************************************************************)
(* Arithmetic with the nakshatra span 13.3333333 of the source.            *)
(***************************************************************************)
NakshatraSpan == <<13, 3333333>>
SpanUnits == NakshatraSpan[1] * Scale + NakshatraSpan[2]

\* k * 13.3333333
KTimesSpan(k) ==
    LET f == k * NakshatraSpan[2]
    IN  <<k * NakshatraSpan[1] + f \div Scale, f % Scale>>

\* int(L / 13.3333333) for L >= 0
FloorDivSpan(L) ==
    CHOOSE k \in 0..(L[1] \div NakshatraSpan[1]) :
        LonLE(KTimesSpan(k), L) /\ ~LonLE(KTimesSpan(k + 1), L)

\* L % 13.3333333 for L >= 0, in units of 1/Scale degree
ModSpan(L) ==
    LET K == KTimesSpan(FloorDivSpan(L))
    IN  (L[1] - K[1]) * Scale + L[2] - K[2]

\* <<quotient, remainder>> of a * b / c, for 0 <= b <= c, without forming a * b
RECURSIVE MulDivQR(_, _, _)
MulDivQR(a, b, c) ==
    IF a = 0 THEN <<0, 0>>
    ELSE LET h == MulDivQR(a \div 2, b, c)
             t == 2 * h[2] + (IF a % 2 = 1 THEN b ELSE 0)
         IN  <<2 * h[1] + t \div c, t % c>>

\* timedelta's rounding of a real number of ticks: to the nearest, ties to even
RoundHalfEven(qr, c) ==
    IF 2 * qr[2] > c \/ (2 * qr[2] = c /\ qr[1] % 2 = 1) THEN qr[1] + 1 ELSE qr[1]

(***************************************************************************)
(* calculate_vimshottari_dasha                                             *)
(***************************************************************************)
dasha_sequence ==
    << [planet |-> "Ketu",    years |-> 7],
       [planet |-> "Venus",   years |-> 20],
       [planet |-> "Sun",     years |-> 6],
       [planet |-> "Moon",    years |-> 10],
       [planet |-> "Mars",    years |-> 7],
       [planet |-> "Rahu",    years |-> 18],
       [planet |-> "Jupiter", years |-> 16],
       [planet |-> "Saturn",  years |-> 19],
       [planet |-> "Mercury", years |-> 17] >>

\* nakshatra_number = int((moon_lon % 360) / 13.3333333)
nakshatra_number(L) == FloorDivSpan(LonMod360(L))

DashaOrderShifted(n) ==
    SubSeq(dasha_sequence, ((n + 1) % 9) + 1, 9) \o SubSeq(dasha_sequence, 1, (n + 1) % 9)

\* dasha_sequence[n % 9:] + dasha_sequence[:n % 9]
dasha_order(n) ==
    SubSeq(dasha_sequence, (n % 9) + 1, 9) \o SubSeq(dasha_sequence, 1, n % 9)

\* nakshatra_pada = (moon_lon % 13.3333333) / 13.3333333, as <<numerator, denominator>>
nakshatra_pada(L) == <<ModSpan(L), SpanUnits>>

\* timedelta(days=balance_years * 365.25), balance_years = years * (1 - nakshatra_pada)
BalanceTicks(years, pada) ==
    RoundHalfEven(MulDivQR(years * YearTicks, pada[2] - pada[1], pada[2]), pada[2])

\* revjul and datetime(year, month, day, int_hour, minute, second)
BirthDatetime(jd) ==
    LET day      == jd \div DayTicks
        hour     == jd % DayTicks
        int_hour == hour \div 60
        minute   == hour - int_hour * 60
    IN  day * DayTicks + int_hour * 60 + minute

FirstDasha(order, current_time, L) ==
    LET start_date == current_time
        end_date   == start_date + BalanceTicks(order[1].years, nakshatra_pada(L))
    IN  [planet |-> order[1].planet, start_date |-> start_date, end_date |-> end_date]

NextDashaGap(entry, current_time) ==
    LET start_date == current_time + 1
        end_date   == start_date + entry.years * YearTicks
    IN  [planet |-> entry.planet, start_date |-> start_date, end_date |-> end_date]

NextDashaShortYear(entry, current_time) ==
    LET start_date == current_time
        end_date   == start_date + entry.years * 365 * DayTicks
    IN  [planet |-> entry.planet, start_date |-> start_date, end_date |-> end_date]

\* one turn of the loop over dasha_order[1:]
NextDasha(entry, current_time) ==
    LET start_date == current_time
        end_date   == start_date + entry.years * YearTicks
    IN  [planet |-> entry.planet, start_date |-> start_date, end_date |-> end_date]

RECURSIVE SubsequentDashas(_, _, _)
SubsequentDashas(rest, current_time, periods) ==
    IF rest = <<>> THEN periods
    ELSE LET d == NextDasha(rest[1], current_time)
         IN  SubsequentDashas(Tail(rest), d.end_date, Append(periods, d))

calculate_vimshottari_dasha(jd, L) ==
    LET order == dasha_order(nakshatra_number(L))
        first == FirstDasha(order, BirthDatetime(jd), L)
    IN  SubsequentDashas(Tail(order), first.end_date, <<first>>)

(***************************************************************************)
(* get_current_dasha                                                       *)
(***************************************************************************)
\* Python's None, where a period is expected
None == [planet |-> "None", start_date |-> 0, end_date |-> 0]

\* for p in periods: if p['start_date'] <= t <= p['end_date']: found = p; break
FirstContaining(periods, t) ==
    LET hits == {i \in 1..Len(periods) :
                    periods[i].start_date <= t /\ t <= periods[i].end_date}
    IN  IF hits = {} THEN None ELSE periods[Min(hits)]

GetCurrentDashaLast(periods, current_time) ==
    IF FirstContaining(periods, current_time) = None
    THEN periods[Len(periods)]
    ELSE FirstContaining(periods, current_time)

get_current_dasha(periods, current_time) == FirstContaining(periods, current_time)

(***************************************************************************)
(* calculate_antardasha                                                    *)
(***************************************************************************)
antardasha_names ==
    << "Ketu", "Venus", "Sun", "Moon", "Mars", "Rahu", "Jupiter", "Saturn", "Mercury" >>

antardasha_lengths ==
    [Ketu |-> 7, Venus |-> 20, Sun |-> 6, Moon |-> 10, Mars |-> 7,
     Rahu |-> 18, Jupiter |-> 16, Saturn |-> 19, Mercury |-> 17]

\* dasha_sequence.index(mahadasha_planet), 0-based
start_index(mahadasha_planet) ==
    (CHOOSE i \in 1..9 : antardasha_names[i] = mahadasha_planet) - 1

\* dasha_sequence[start_index:] + dasha_sequence[:start_index]
antardasha_sequence(i) ==
    SubSeq(antardasha_names, i + 1, 9) \o SubSeq(antardasha_names, 1, i)

\* (end_date - start_date).days
total_dasha_duration(dasha) == (dasha.end_date - dasha.start_date) \div DayTicks

\* timedelta(days=(duration_years / 120.0) * total_dasha_duration), in ticks
duration_days(years, total) == (years * total * DayTicks) \div 120

RECURSIVE BuildAntardashas(_, _, _, _, _)
BuildAntardashas(rest, dasha, total, cumulative_days, periods) ==
    IF rest = <<>> THEN periods
    ELSE LET d     == duration_days(antardasha_lengths[rest[1]], total)
             start == dasha.start_date + cumulative_days
             end   == start + d
         IN  BuildAntardashas(Tail(rest), dasha, total, cumulative_days + d,
                 Append(periods, [planet |-> rest[1], start_date |-> start, end_date |-> end]))

\* the antardasha_periods list, empty when the function returns early
AntardashaPeriods(dasha) ==
    IF dasha = None THEN <<>>
    ELSE BuildAntardashas(antardasha_sequence(start_index(dasha.planet)), dasha,
                          total_dasha_duration(dasha), 0, <<>>)

calculate_antardasha(dasha, t) ==
    IF dasha = None THEN None ELSE FirstContaining(AntardashaPeriods(dasha), t)

(***************************************************************************)
(* calculate_nakshatra                                                     *)
(***************************************************************************)
nakshatras ==
    << "Ashwini", "Bharani", "Krittika", "Rohini", "Mrigashira", "Ardra",
       "Punarvasu", "Pushya", "Ashlesha", "Magha", "Purva Phalguni",
       "Uttara Phalguni", "Hasta", "Chitra", "Swati", "Vishakha",
       "Anuradha", "Jyeshtha", "Mula", "Purva Ashadha", "Uttara Ashadha",
       "Shravana", "Dhanishta", "Shatabhisha", "Purva Bhadrapada",
       "Uttara Bhadrapada", "Revati" >>

\* nakshatra_num = int((moon_pos[0] % 360) / 13.3333333) + 1
nakshatra_num(L) == FloorDivSpan(LonMod360(L)) + 1

\* nakshatras[nakshatra_num - 1] raises IndexError past the end of the list
NakshatraLookupFails(L) == nakshatra_num(L) - 1 >= Len(nakshatras)

calculate_nakshatra(L) == nakshatras[(nakshatra_num(L) - 1) + 1]

(***************************************************************************)
(* convert_to_24_hour, get_birth_datetime and calculate_julian_day.  A     *)
(* string is the tuple of its characters; strptime matches the regular     *)
(* expression of its format against the start of the string and rejects    *)
(* what is left over.                                                      *)
(***************************************************************************)
DigitChars == << "0", "1", "2", "3", "4", "5", "6", "7", "8", "9" >>
IsDigit(c) == \E i \in 1..10 : DigitChars[i] = c
DigitValue(c) == (CHOOSE i \in 1..10 : DigitChars[i] = c) - 1
AllDigits(s) == \A i \in 1..Len(s) : IsDigit(s[i])
Number(s) ==
    IF Len(s) = 1 THEN DigitValue(s[1]) ELSE 10 * DigitValue(s[1]) + DigitValue(s[2])

\* the text before the first ":" (the whole string when there is none)
HourText(s) ==
    LET colons == {i \in 1..Len(s) : s[i] = ":"}
    IN  IF colons = {} THEN s ELSE SubSeq(s, 1, Min(colons) - 1)
HasColon(s) == \E i \in 1..Len(s) : s[i] = ":"
\* the text after the first ":"
AfterColon(s) == SubSeq(s, Len(HourText(s)) + 2, Len(s))

\* %H: 2[0-3]|[0-1]\d|\d, followed by ":"
MatchesH(h) ==
    /\ Len(h) \in {1, 2}
    /\ AllDigits(h)
    /\ Number(h) <= 23

\* %I: 1[0-2]|0[1-9]|[1-9], followed by ":"
MatchesI(h) ==
    /\ Len(h) \in {1, 2}
    /\ AllDigits(h)
    /\ Number(h) \in 1..12

\* %M: [0-5]\d|\d; the number of characters it takes at the start of r
MinuteLen(r) ==
    IF Len(r) >= 2 /\ IsDigit(r[1]) /\ DigitValue(r[1]) <= 5 /\ IsDigit(r[2]) THEN 2
    ELSE IF Len(r) >= 1 /\ IsDigit(r[1]) THEN 1
    ELSE 0

\* " %p" at the end of the string: \s+ and then AM or PM in either case
Meridiem(r) ==
    LET n == Len(r)
    IN  IF n >= 3 /\ (\A i \in 1..(n - 2) : r[i] = " ")
             /\ r[n] \in {"M", "m"} /\ r[n - 1] \in {"A", "a", "P", "p"}
        THEN (IF r[n - 1] \in {"A", "a"} THEN "AM" ELSE "PM")
        ELSE "None"

\* datetime.strptime(time_str, "%I:%M %p") succeeds
Parses12(s) ==
    /\ HasColon(s)
    /\ MatchesI(HourText(s))
    /\ MinuteLen(AfterColon(s)) > 0
    /\ LET r == AfterColon(s)
       IN  Meridiem(SubSeq(r, MinuteLen(r) + 1, Len(r))) # "None"

\* the minute of the day "%I:%M %p" stands for
Minutes12(s) ==
    LET r    == AfterColon(s)
        ampm == Meridiem(SubSeq(r, MinuteLen(r) + 1, Len(r)))
        I    == Number(HourText(s))
        hour == IF ampm = "AM" THEN I % 12 ELSE (I % 12) + 12
    IN  hour * 60 + Number(SubSeq(r, 1, MinuteLen(r)))

\* the regular expression of "%H:%M" matches a start of s
Matches24(s) ==
    /\ HasColon(s)
    /\ MatchesH(HourText(s))
    /\ MinuteLen(AfterColon(s)) > 0

\* what "%H:%M" leaves unconverted
Unconverted24(s) ==
    LET r == AfterColon(s) IN SubSeq(r, MinuteLen(r) + 1, Len(r))

\* datetime.strptime(..., "... %H:%M") succeeds
Parses24(s) == Matches24(s) /\ Unconverted24(s) = <<>>

Minutes24(s) ==
    LET r == AfterColon(s)
    IN  Number(HourText(s)) * 60 + Number(SubSeq(r, 1, MinuteLen(r)))

\* strftime("%H:%M")
FormatHM(minutes) ==
    LET h == minutes \div 60
        m == minutes % 60
    IN  << DigitChars[(h \div 10) + 1], DigitChars[(h % 10) + 1], ":",
           DigitChars[(m \div 10) + 1], DigitChars[(m % 10) + 1] >>

\* try: strptime("%I:%M %p").strftime("%H:%M"); except ValueError: return time_str
convert_to_24_hour(time_str) ==
    IF Parses12(time_str) THEN FormatHM(Minutes12(time_str)) ELSE time_str

\* the zones pytz knows, with their offset from UTC in minutes
UtcOffset == [UTC |-> 0, Asia_Kolkata |-> 330]

NoException == [type |-> "None", message |-> <<>>]

\* what get_birth_datetime raises, NoException when it returns
BirthDatetimeError(t24, tz) ==
    IF tz \notin DOMAIN UtcOffset
    THEN [type |-> "ValueError", message |-> <<"Unknown timezone:", tz>>]
    ELSE IF ~Matches24(t24)
    THEN [type |-> "ValueError",
          message |-> <<"time data does not match format", "%Y-%m-%d %H:%M">>]
    ELSE IF Unconverted24(t24) # <<>>
    THEN [type |-> "ValueError", message |-> <<"unconverted data remains:">>]
    ELSE NoException

\* dt_local.astimezone(pytz.utc) and swe.julday, as an instant in ticks
calculate_julian_day(date, t24, tz) ==
    date * DayTicks + Minutes24(t24) - UtcOffset[tz]

(***************************************************************************)
(* calculate_planetary_positions and calculate_houses.  A call to the      *)
(* swisseph module is a record of the function called and of its body or   *)
(* mode argument.                                                          *)
(***************************************************************************)
\* the keys of `planets`, in the order the loop visits them
Bodies ==
    << "Sun", "Moon", "Mars", "Mercury", "Jupiter", "Venus", "Saturn", "Rahu", "Ketu" >>
BodySet == {Bodies[i] : i \in 1..Len(Bodies)}

\* planets[planet]: the body code handed to swe.calc_ut ("None" for Ketu)
planets ==
    [Sun |-> "SUN", Moon |-> "MOON", Mars |-> "MARS", Mercury |-> "MERCURY",
     Jupiter |-> "JUPITER", Venus |-> "VENUS", Saturn |-> "SATURN",
     Rahu |-> "TRUE_NODE", Ketu |-> "None"]

SetSidMode == [fn |-> "set_sid_mode", arg |-> "SIDM_LAHIRI"]
CalcUt(code) == [fn |-> "calc_ut", arg |-> code]
HousesEx == [fn |-> "houses_ex", arg |-> "W"]

KetuNoWrap(rahu_pos) == <<rahu_pos[1] + 180, rahu_pos[2]>>

\* (rahu_pos[0] + 180.0) % 360
KetuFromRahu(rahu_pos) == LonMod360(<<rahu_pos[1] + 180, rahu_pos[2]>>)

\* the dict `pos`, for the answers eph of the ephemeris
calculate_planetary_positions(eph) ==
    [p \in BodySet |->
        IF p = "Ketu" THEN KetuFromRahu(eph["TRUE_NODE"]) ELSE eph[planets[p]]]

\* the swisseph calls of calculate_planetary_positions: the mode once, then
\* one query per key of `planets`, the one for Ketu with swe.TRUE_NODE
PositionCalls ==
    <<SetSidMode>> \o
    [i \in 1..Len(Bodies) |->
        IF Bodies[i] = "Ketu" THEN CalcUt("TRUE_NODE") ELSE CalcUt(planets[Bodies[i]])]

\* the swisseph calls of calculate_houses
HouseCalls == <<SetSidMode, HousesEx>>

(***************************************************************************)
(* get_sub_lot_index, compute_divisional_chart and the D7..D60 tables.     *)
(* A degree within a sign is a whole number of 1/Scale degrees; the        *)
(* rounded "degree" of a chart entry is a whole number of hundredths.      *)
(***************************************************************************)
D7_TABLE ==
    [Aries |-> << "Aries", "Taurus", "Gemini", "Cancer", "Leo", "Virgo", "Libra" >>,
     Taurus |-> << "Scorpio", "Sagittarius", "Capricorn", "Aquarius", "Pisces", "Aries", "Taurus" >>,
     Gemini |-> << "Leo", "Virgo", "Libra", "Scorpio", "Sagittarius", "Capricorn", "Aquarius" >>,
     Cancer |-> << "Taurus", "Gemini", "Cancer", "Leo", "Virgo", "Libra", "Scorpio" >>,
     Leo |-> << "Aries", "Taurus", "Gemini", "Cancer", "Leo", "Virgo", "Libra" >>,
     Virgo |-> << "Capricorn", "Aquarius", "Pisces", "Aries", "Taurus", "Gemini", "Cancer" >>,
     Libra |-> << "Libra", "Scorpio", "Sagittarius", "Capricorn", "Aquarius", "Pisces", "Aries" >>,
     Scorpio |-> << "Cancer", "Leo", "Virgo", "Libra", "Scorpio", "Sagittarius", "Capricorn" >>,
     Sagittarius |-> << "Aries", "Taurus", "Gemini", "Cancer", "Leo", "Virgo", "Libra" >>,
     Capricorn |-> << "Gemini", "Cancer", "Leo", "Virgo", "Libra", "Scorpio", "Sagittarius" >>,
     Aquarius |-> << "Aries", "Taurus", "Gemini", "Cancer", "Leo", "Virgo", "Libra" >>,
     Pisces |-> << "Virgo", "Libra", "Scorpio", "Sagittarius", "Capricorn", "Aquarius", "Pisces" >>]

D9_TABLE ==
    [Aries |-> << "Aries", "Taurus", "Gemini", "Cancer", "Leo", "Virgo", "Libra", "Scorpio", "Sagittarius" >>,
     Taurus |-> << "Capricorn", "Aquarius", "Pisces", "Aries", "Taurus", "Gemini", "Cancer", "Leo", "Virgo" >>,
     Gemini |-> << "Libra", "Scorpio", "Sagittarius", "Capricorn", "Aquarius", "Pisces", "Aries", "Taurus", "Gemini" >>,
     Cancer |-> << "Cancer", "Leo", "Virgo", "Libra", "Scorpio", "Sagittarius", "Capricorn", "Aquarius", "Pisces" >>,
     Leo |-> << "Aries", "Taurus", "Gemini", "Cancer", "Leo", "Virgo", "Libra", "Scorpio", "Sagittarius" >>,
     Virgo |-> << "Capricorn", "Aquarius", "Pisces", "Aries", "Taurus", "Gemini", "Cancer", "Leo", "Virgo" >>,
     Libra |-> << "Libra", "Scorpio", "Sagittarius", "Capricorn", "Aquarius", "Pisces", "Aries", "Taurus", "Gemini" >>,
     Scorpio |-> << "Cancer", "Leo", "Virgo", "Libra", "Scorpio", "Sagittarius", "Capricorn", "Aquarius", "Pisces" >>,
     Sagittarius |-> << "Aries", "Taurus", "Gemini", "Cancer", "Leo", "Virgo", "Libra", "Scorpio", "Sagittarius" >>,
     Capricorn |-> << "Capricorn", "Aquarius", "Pisces", "Aries", "Taurus", "Gemini", "Cancer", "Leo", "Virgo" >>,
     Aquarius |-> << "Libra", "Scorpio", "Sagittarius", "Capricorn", "Aquarius", "Pisces", "Aries", "Taurus", "Gemini" >>,
     Pisces |-> << "Cancer", "Leo", "Virgo", "Libra", "Scorpio", "Sagittarius", "Capricorn", "Aquarius", "Pisces" >>]

D10_TABLE ==
    [Aries |-> << "Aries", "Taurus", "Gemini", "Cancer", "Leo", "Virgo", "Libra", "Scorpio", "Sagittarius", "Capricorn" >>,
     Taurus |-> << "Aquarius", "Pisces", "Aries", "Taurus", "Gemini", "Cancer", "Leo", "Virgo", "Libra", "Scorpio" >>,
     Gemini |-> << "Sagittarius", "Capricorn", "Aquarius", "Pisces", "Aries", "Taurus", "Gemini", "Cancer", "Leo", "Virgo" >>,
     Cancer |-> << "Libra", "Scorpio", "Sagittarius", "Capricorn", "Aquarius", "Pisces", "Aries", "Taurus", "Gemini", "Cancer" >>,
     Leo |-> << "Aries", "Taurus", "Gemini", "Cancer", "Leo", "Virgo", "Libra", "Scorpio", "Sagittarius", "Capricorn" >>,
     Virgo |-> << "Aquarius", "Pisces", "Aries", "Taurus", "Gemini", "Cancer", "Leo", "Virgo", "Libra", "Scorpio" >>,
     Libra |-> << "Sagittarius", "Capricorn", "Aquarius", "Pisces", "Aries", "Taurus", "Gemini", "Cancer", "Leo", "Virgo" >>,
     Scorpio |-> << "Libra", "Scorpio", "Sagittarius", "Capricorn", "Aquarius", "Pisces", "Aries", "Taurus", "Gemini", "Cancer" >>,
     Sagittarius |-> << "Aries", "Taurus", "Gemini", "Cancer", "Leo", "Virgo", "Libra", "Scorpio", "Sagittarius", "Capricorn" >>,
     Capricorn |-> << "Aquarius", "Pisces", "Aries", "Taurus", "Gemini", "Cancer", "Leo", "Virgo", "Libra", "Scorpio" >>,
     Aquarius |-> << "Sagittarius", "Capricorn", "Aquarius", "Pisces", "Aries", "Taurus", "Gemini", "Cancer", "Leo", "Virgo" >>,
     Pisces |-> << "Libra", "Scorpio", "Sagittarius", "Capricorn", "Aquarius", "Pisces", "Aries", "Taurus", "Gemini", "Cancer" >>]

D12_TABLE ==
    [Aries |-> << "Aries", "Taurus", "Gemini", "Cancer", "Leo", "Virgo", "Libra", "Scorpio", "Sagittarius", "Capricorn", "Aquarius", "Pisces" >>,
     Taurus |-> << "Taurus", "Gemini", "Cancer", "Leo", "Virgo", "Libra", "Scorpio", "Sagittarius", "Capricorn", "Aquarius", "Pisces", "Aries" >>,
     Gemini |-> << "Gemini", "Cancer", "Leo", "Virgo", "Libra", "Scorpio", "Sagittarius", "Capricorn", "Aquarius", "Pisces", "Aries", "Taurus" >>,
     Cancer |-> << "Cancer", "Leo", "Virgo", "Libra", "Scorpio", "Sagittarius", "Capricorn", "Aquarius", "Pisces", "Aries", "Taurus", "Gemini" >>,
     Leo |-> << "Leo", "Virgo", "Libra", "Scorpio", "Sagittarius", "Capricorn", "Aquarius", "Pisces", "Aries", "Taurus", "Gemini", "Cancer" >>,
     Virgo |-> << "Virgo", "Libra", "Scorpio", "Sagittarius", "Capricorn", "Aquarius", "Pisces", "Aries", "Taurus", "Gemini", "Cancer", "Leo" >>,
     Libra |-> << "Libra", "Scorpio", "Sagittarius", "Capricorn", "Aquarius", "Pisces", "Aries", "Taurus", "Gemini", "Cancer", "Leo", "Virgo" >>,
     Scorpio |-> << "Scorpio", "Sagittarius", "Capricorn", "Aquarius", "Pisces", "Aries", "Taurus", "Gemini", "Cancer", "Leo", "Virgo", "Libra" >>,
     Sagittarius |-> << "Sagittarius", "Capricorn", "Aquarius", "Pisces", "Aries", "Taurus", "Gemini", "Cancer", "Leo", "Virgo", "Libra", "Scorpio" >>,
     Capricorn |-> << "Capricorn", "Aquarius", "Pisces", "Aries", "Taurus", "Gemini", "Cancer", "Leo", "Virgo", "Libra", "Scorpio", "Sagittarius" >>,
     Aquarius |-> << "Aquarius", "Pisces", "Aries", "Taurus", "Gemini", "Cancer", "Leo", "Virgo", "Libra", "Scorpio", "Sagittarius", "Capricorn" >>,
     Pisces |-> << "Pisces", "Aries", "Taurus", "Gemini", "Cancer", "Leo", "Virgo", "Libra", "Scorpio", "Sagittarius", "Capricorn", "Aquarius" >>]

d7_sign_sequence(rashi_name) ==
    IF rashi_name \in DOMAIN D7_TABLE THEN D7_TABLE[rashi_name]
    ELSE [i \in 1..7 |-> "Unknown"]

d9_sign_sequence(rashi_name) ==
    IF rashi_name \in DOMAIN D9_TABLE THEN D9_TABLE[rashi_name]
    ELSE [i \in 1..9 |-> "Unknown"]

d10_sign_sequence(rashi_name) ==
    IF rashi_name \in DOMAIN D10_TABLE THEN D10_TABLE[rashi_name]
    ELSE [i \in 1..10 |-> "Unknown"]

D12Shifted(rashi_name) ==
    IF rashi_name \in DOMAIN D12_TABLE
    THEN Tail(D12_TABLE[rashi_name]) \o <<D12_TABLE[rashi_name][1]>>
    ELSE [i \in 1..12 |-> "Unknown"]

d12_sign_sequence(rashi_name) ==
    IF rashi_name \in DOMAIN D12_TABLE THEN D12_TABLE[rashi_name]
    ELSE [i \in 1..12 |-> "Unknown"]

\* SIGNS * 5
d60_sign_sequence(rashi_name) == SIGNS \o SIGNS \o SIGNS \o SIGNS \o SIGNS

\* the sign_sequence_func calculate_kundali passes along with sub_sign_count
sign_sequence_func(sub_sign_count, rashi_name) ==
    CASE sub_sign_count = 7  -> d7_sign_sequence(rashi_name)
      [] sub_sign_count = 9  -> d9_sign_sequence(rashi_name)
      [] sub_sign_count = 10 -> d10_sign_sequence(rashi_name)
      [] sub_sign_count = 12 -> d12_sign_sequence(rashi_name)
      [] sub_sign_count = 60 -> d60_sign_sequence(rashi_name)

\* size = 30.0 / sub_sign_count is a double: 3.0, 2.5 and 0.5 are 30/10, 30/12
\* and 30/60; 3.3333333333333335 lies above 30/9; 4.285714285714286 lies below
\* 30/7.
SizeAboveExact(sub_sign_count) == sub_sign_count = 9

\* local_deg lies on a multiple k * (30 / sub_sign_count), k >= 1, that the
\* double `size` overshoots: k * size > local_deg
SizeOvershoots(local_deg, sub_sign_count) ==
    LET qr == MulDivQR(sub_sign_count, local_deg, 30 * Scale)
    IN  SizeAboveExact(sub_sign_count) /\ qr[2] = 0 /\ qr[1] > 0

\* int(local_deg // size)
FloorDivSize(local_deg, sub_sign_count) ==
    LET qr == MulDivQR(sub_sign_count, local_deg, 30 * Scale)
    IN  IF SizeOvershoots(local_deg, sub_sign_count) THEN qr[1] - 1 ELSE qr[1]

get_sub_lot_index(local_deg, sub_sign_count) ==
    LET idx == FloorDivSize(local_deg, sub_sign_count) + 1
    IN  Min({idx, sub_sign_count})

\* eclip_deg % 30.0
LocalDeg(deg) == (deg[1] % 30) * Scale + deg[2]

\* round((local_deg % slot_size) * sub_sign_count, 2), in hundredths: where the
\* double overshoots, local_deg % slot_size is just under slot_size and the
\* product rounds to 30.00
leftover_deg(local_deg, sub_sign_count) ==
    LET qr == MulDivQR(sub_sign_count, local_deg, 30 * Scale)
    IN  IF SizeOvershoots(local_deg, sub_sign_count) THEN 3000
        ELSE RoundHalfEven(<<qr[2] \div (Scale \div 100), qr[2] % (Scale \div 100)>>,
                           Scale \div 100)

\* chart_data[planet], for one body
ChartEntry(deg, d1_sign, sub_sign_count) ==
    LET local_deg == LocalDeg(deg)
        idx       == get_sub_lot_index(local_deg, sub_sign_count)
        sub_signs == sign_sequence_func(sub_sign_count, d1_sign)
        sub_idx   == IF idx > Len(sub_signs) THEN Len(sub_signs) ELSE idx
    IN  [degree |-> leftover_deg(local_deg, sub_sign_count), sign |-> sub_signs[sub_idx]]

compute_divisional_chart(body, deg, d1_sign, sub_sign_count) ==
    body :> ChartEntry(deg, d1_sign, sub_sign_count)

(***************************************************************************)
(* determine_house_rulers and get_planetary_strength                       *)
(***************************************************************************)
sign_rulers ==
    [Aries |-> "Mars", Taurus |-> "Venus", Gemini |-> "Mercury", Cancer |-> "Moon",
     Leo |-> "Sun", Virgo |-> "Mercury", Libra |-> "Venus", Scorpio |-> "Mars",
     Sagittarius |-> "Jupiter", Capricorn |-> "Saturn", Aquarius |-> "Saturn",
     Pisces |-> "Jupiter"]

\* sign_rulers.get(name, "Unknown")
SignRulerGet(name) ==
    IF name \in DOMAIN sign_rulers THEN sign_rulers[name] ELSE "Unknown"

HouseRulersOffByOne(asc_sign) ==
    [house \in 1..12 |-> SignRulerGet(sign_name(((asc_sign + house - 1) % 12) + 1))]

\* house_rulers[house] for house in range(1, 13), sign_idx = (asc_sign + house - 2) % 12 + 1
determine_house_rulers(asc_sign) ==
    [house \in 1..12 |-> SignRulerGet(sign_name(((asc_sign + house - 2) % 12) + 1))]

benefics == {"Sun", "Venus", "Jupiter", "Mercury", "Moon"}

exalt ==
    [Sun |-> "Aries", Moon |-> "Taurus", Mars |-> "Capricorn", Mercury |-> "Virgo",
     Jupiter |-> "Cancer", Venus |-> "Pisces", Saturn |-> "Libra"]

debil ==
    [Sun |-> "Libra", Moon |-> "Scorpio", Mars |-> "Cancer", Mercury |-> "Pisces",
     Jupiter |-> "Capricorn", Venus |-> "Virgo", Saturn |-> "Aries"]

owns ==
    [Sun |-> {"Leo"}, Moon |-> {"Cancer"}, Mars |-> {"Aries", "Scorpio"},
     Mercury |-> {"Gemini", "Virgo"}, Jupiter |-> {"Sagittarius", "Pisces"},
     Venus |-> {"Taurus", "Libra"}, Saturn |-> {"Capricorn", "Aquarius"}]

dig_bala ==
    [Sun |-> 1, Mars |-> 10, Jupiter |-> 1, Moon |-> 4, Venus |-> 7, Mercury |-> 7,
     Saturn |-> 10]

DignityOwnedFirst(p, sign) ==
    IF p \in DOMAIN owns /\ sign \in owns[p] THEN "Strong"
    ELSE IF p \in DOMAIN exalt /\ sign = exalt[p] THEN "Exalted"
    ELSE IF p \in DOMAIN debil /\ sign = debil[p] THEN "Debilitated"
    ELSE "Neutral"

\* the if / elif / elif / else chain
Dignity(p, sign) ==
    IF p \in DOMAIN exalt /\ sign = exalt[p] THEN "Exalted"
    ELSE IF p \in DOMAIN debil /\ sign = debil[p] THEN "Debilitated"
    ELSE IF p \in DOMAIN owns /\ sign \in owns[p] THEN "Strong"
    ELSE "Neutral"

\* the pair (strength, planet in benefics)
get_planetary_strength(p, sign, house) ==
    LET strength == Dignity(p, sign)
    IN  << IF p \in DOMAIN dig_bala /\ house = dig_bala[p]
           THEN strength \o " + Dig Bala"
           ELSE strength,
           p \in benefics >>

(***************************************************************************)
(* make_personalized_report, prepare_kundali_summary and the keys          *)
(* calculate_kundali adds to the report.  A dict is a function from its    *)
(* keys; the summary is the sequence of its lines, a line the tuple of the *)
(* texts it is made of.  The dicts keyed by body hold the followed body.   *)
(***************************************************************************)
EmptyDict == [k \in {} |-> ""]

\* strftime("%Y-%m-%d"): the calendar day of an instant
FormatDate(t) == ToString(t \div DayTicks)

\* f"{x:.2f}": the hundredths of a longitude, as text
Format2f(L) ==
    ToString(RoundHalfEven(<<L[1] * 100 + L[2] \div (Scale \div 100),
                             L[2] % (Scale \div 100)>>, Scale \div 100))

BodyEntryWithDegree(p, house, rulers, positions, signs) ==
    [house          |-> house,
     house_ruler    |-> IF house \in DOMAIN rulers THEN rulers[house] ELSE "Unknown",
     strength       |-> get_planetary_strength(p, signs[p], house)[1],
     benefic        |-> p \in {"Sun", "Venus", "Jupiter", "Mercury", "Moon"},
     position       |-> positions[p],
     degree         |-> positions[p],
     planetary_sign |-> signs[p]]

\* report[planet]
BodyEntry(p, house, rulers, positions, signs) ==
    [house          |-> house,
     house_ruler    |-> IF house \in DOMAIN rulers THEN rulers[house] ELSE "Unknown",
     strength       |-> get_planetary_strength(p, signs[p], house)[1],
     benefic        |-> p \in {"Sun", "Venus", "Jupiter", "Mercury", "Moon"},
     position       |-> positions[p],
     planetary_sign |-> signs[p]]

\* report["Mahadasha"] / report["Antardasha"]: {} unless the period is truthy
PeriodDict(period) ==
    IF period = None THEN EmptyDict
    ELSE [planet     |-> period.planet,
          start_date |-> FormatDate(period.start_date),
          end_date   |-> FormatDate(period.end_date)]

\* the line of one body in the summary
BodyLine(p, details) ==
    << p, Format2f(details.position), "in", details.planetary_sign,
       "House", ToString(details.house), details.house_ruler,
       "Strength:", details.strength,
       "Nature:", IF details.benefic THEN "Benefic" ELSE "Malefic" >>

\* the "Current Mahadasha: ..." / "Current Antardasha: ..." line of the summary
PeriodLine(label, d) ==
    IF "planet" \in DOMAIN d
    THEN <<label, d["planet"], "(from", d["start_date"], "to", d["end_date"], ")">>
    ELSE <<label, "Not Found">>

prepare_kundali_summary(rep, asc_sign_name, asc, nak) ==
    LET IsBody(k) == k \in DOMAIN rep
                        /\ k \notin {"Mahadasha", "Antardasha", "kundali_summary"}
        keys      == SelectSeq(Bodies, IsBody)
    IN  << <<"Kundali Report Summary:">>,
           <<"Ascendant (Lagna):", asc_sign_name, Format2f(asc)>>,
           <<"Nakshatra:", nak>>,
           <<"Planetary Positions:">> >>
        \o [i \in 1..Len(keys) |-> BodyLine(keys[i], rep[keys[i]])]
        \o << PeriodLine("Current Mahadasha:", rep["Mahadasha"]),
               PeriodLine("Current Antardasha:", rep["Antardasha"]) >>

ReportCurrentAsPeriods(planet_in_houses, rulers, periods, dasha, antardasha, positions, signs, asc_sign_name, asc, nak) ==
    LET entries == [p \in DOMAIN planet_in_houses |->
                       BodyEntry(p, planet_in_houses[p], rulers, positions, signs)]
        started == entries @@ [Mahadasha  |-> PeriodDict(dasha),
                               Antardasha |-> PeriodDict(antardasha)]
    IN  started @@
        [kundali_summary     |-> prepare_kundali_summary(started, asc_sign_name, asc, nak),
         planetary_positions |-> positions,
         planet_in_houses    |-> planet_in_houses,
         house_rulers        |-> rulers,
         dasha_periods       |-> <<dasha>>,
         current_dasha       |-> dasha,
         current_antardasha  |-> antardasha]

make_personalized_report(planet_in_houses, rulers, periods, dasha, antardasha, positions, signs, asc_sign_name, asc, nak) ==
    LET entries == [p \in DOMAIN planet_in_houses |->
                       BodyEntry(p, planet_in_houses[p], rulers, positions, signs)]
        started == entries @@ [Mahadasha  |-> PeriodDict(dasha),
                               Antardasha |-> PeriodDict(antardasha)]
    IN  started @@
        [kundali_summary     |-> prepare_kundali_summary(started, asc_sign_name, asc, nak),
         planetary_positions |-> positions,
         planet_in_houses    |-> planet_in_houses,
         house_rulers        |-> rulers,
         dasha_periods       |-> periods,
         current_dasha       |-> dasha,
         current_antardasha  |-> antardasha]

\* the name and the coordinates of the request, which no calculation of the
\* model reads
RequestName == "Asha"
RequestLatitude == <<28, 6139000>>
RequestLongitude == <<77, 2090000>>

\* base_report after steps 6 and 7 of calculate_kundali
BaseReport(rep, p, deg, d1_sign, date, time_str, t24, tz) ==
    [D7  |-> compute_divisional_chart(p, deg, d1_sign, 7),
     D9  |-> compute_divisional_chart(p, deg, d1_sign, 9),
     D10 |-> compute_divisional_chart(p, deg, d1_sign, 10),
     D12 |-> compute_divisional_chart(p, deg, d1_sign, 12),
     D60 |-> compute_divisional_chart(p, deg, d1_sign, 60),
     name                |-> RequestName,
     date_of_birth       |-> date,
     time_of_birth_input |-> time_str,
     time_of_birth_24hr  |-> t24,
     latitude            |-> RequestLatitude,
     longitude           |-> RequestLongitude,
     timezone            |-> tz] @@ rep

(***************************************************************************)
(* determine_house_for_planet                                              *)
(***************************************************************************)
\* the test of the loop body for the 0-based index i
IntervalTest(i, ecliptic_degree, cusps) ==
    LET cusp      == cusps[i + 1]
        nxt       == cusps[((i + 1) % 12) + 1]
        next_cusp == IF i = 11 THEN LonPlus360(nxt) ELSE nxt
        adj_deg   == IF LonLE(cusp, ecliptic_degree)
                     THEN ecliptic_degree
                     ELSE LonPlus360(ecliptic_degree)
    IN  LonLE(cusp, adj_deg) /\ LonLT(adj_deg, next_cusp)

determine_house_for_planet(ecliptic_degree, cusps) ==
    LET hits == {i \in 0..11 : IntervalTest(i, ecliptic_degree, cusps)}
    IN  IF hits = {} THEN 12 ELSE Min(hits) + 1

(***************************************************************************)
(* calculate_kundali, step 2: the D1 sign and house of a body, and the     *)
(* ascendant's sign.  The loop treats the 9 bodies alike; the model        *)
(* follows one of them.                                                    *)
(***************************************************************************)
\* s_num = int(deg // 30) + 1; if s_num > 12: s_num -= 12
BodySignNumber(deg) ==
    LET n == deg[1] \div 30 + 1
    IN  IF n > 12 THEN n - 12 ELSE n

\* asc_sign_num = int(asc_deg // 30) + 1
AscSignNumber(deg) == deg[1] \div 30 + 1

\* The cusps swe.houses_ex(..., b"W", ...) answers with: the starts of the 12
\* signs, from the ascendant's sign on.
WholeSignCusps(asc) ==
    [i \in 1..12 |-> <<(30 * (LonMod360(asc)[1] \div 30) + 30 * (i - 1)) % 360, 0>>]

(***************************************************************************)
(* Inputs.                                                                 *)
(***************************************************************************)
\* the minute of the day of the births of the dasha runs: 12:34
BirthMinutes == {754}

LonAddUnits(L, u) ==
    LET f == L[2] + u
    IN  <<L[1] + f \div Scale, f % Scale>>

\* Around every multiple of 13.3333333: one unit below it, the multiple,
\* 1.6666667 above it (15.0 for the first) and the middle of the span.
MoonOffsets == {-1, 0, 16666667, 66666666}
MoonLons ==
    {L \in {LonAddUnits(KTimesSpan(k), u) : k \in 0..27, u \in MoonOffsets} :
        LonLE(<<0, 0>>, L) /\ LonLT(L, <<360, 0>>)}

\* The clock readings tried: around both ends of every period, and its middle.
NowCandidates(periods) ==
    UNION {{p.start_date - 1, p.start_date, p.start_date + 1,
            (p.start_date + p.end_date) \div 2,
            p.end_date - 1, p.end_date, p.end_date + 1} :
           p \in {periods[i] : i \in 1..Len(periods)}}

\* Time strings in the 12-hour format (4), in the 24-hour format (3), and in
\* neither (8).
TimeStrings ==
    { << "0", "7", ":", "3", "0", " ", "P", "M" >>,
      << "1", "2", ":", "0", "0", " ", "A", "M" >>,
      << "1", "2", ":", "3", "4", " ", "p", "m" >>,
      << "7", ":", "5", " ", "A", "M" >>,
      << "1", "9", ":", "3", "0" >>,
      << "0", "0", ":", "0", "0" >>,
      << "7", ":", "5" >>,
      << "1", "3", ":", "9", "9" >>,
      << "2", "4", ":", "0", "0" >>,
      << "1", "2", ":", "6", "0" >>,
      << "0", "7", ":", "3", "0", "P", "M" >>,
      << "1", "3", ":", "3", "0", " ", "P", "M" >>,
      << "0", ":", "3", "0", " ", "A", "M" >>,
      << "a", "b", "c" >>,
      <<  >> }

\* Timezone names: two that pytz knows and one that it does not.
TimezoneNames == {"UTC", "Asia_Kolkata", "Mars_Phobos"}

\* The answers of the ephemeris for a birth instant: the longitude of every
\* body code, and the ascendant (ascmc[0]) of swe.houses_ex.
DefaultEphemeris ==
    [SUN       |-> <<10, 5000000>>,
     MOON      |-> <<15, 0>>,
     MARS      |-> <<95, 2500000>>,
     MERCURY   |-> <<171, 7500000>>,
     JUPITER   |-> <<200, 0>>,
     VENUS     |-> <<340, 1250000>>,
     SATURN    |-> <<285, 9000000>>,
     TRUE_NODE |-> <<100, 2500000>>,
     ASC       |-> <<42, 3456789>>]

\* the answers under which body p stands at deg and the ascendant at asc
EphemerisFor(p, deg, asc) ==
    LET e == [DefaultEphemeris EXCEPT !["ASC"] = asc]
    IN  IF p = "Ketu"
        THEN [e EXCEPT !["TRUE_NODE"] = LonMod360(<<deg[1] + 180, deg[2]>>)]
        ELSE [e EXCEPT ![planets[p]] = deg]

\* Longitudes of the node: around 0, 180 and 360, and in between.
RahuLons ==
    { <<0, 0>>, <<0, 1>>, <<45, 1234567>>, <<179, 9999999>>, <<180, 0>>,
      <<180, 1>>, <<270, 5000000>>, <<359, 9999999>> }

\* Ascendants: one in every sign, and one that is not normalised to [0, 360).
AscLons ==
    {<<30 * s + 12, 3456789>> : s \in 0..11} \cup {<<372, 5000000>>}

\* Body longitudes: both ends of every sign, and values below 0 and from 360 on.
BodyLons ==
    {<<30 * s, 0>> : s \in 0..11} \cup {<<30 * s + 29, 9999999>> : s \in 0..11}
    \cup {<<-360, 0>>, <<-30, 0>>, <<-1, 9999999>>, <<360, 0>>, <<389, 9999999>>,
          <<719, 9999999>>, <<720, 0>>, <<750, 0>>}

\* Longitudes of the report runs: in every sign, the start of the sign, both
\* sides of the sub-lot boundaries 2.5, 10/3, 10 and 20 degrees, and the end.
ReportLocalDegs ==
    { <<0, 0>>, <<2, 4999999>>, <<2, 5000000>>, <<3, 3333333>>, <<3, 3333334>>,
      <<9, 9999999>>, <<10, 0>>, <<20, 0>>, <<29, 9999999>> }
ReportLons == {<<30 * s + d[1], d[2]>> : s \in 0..11, d \in ReportLocalDegs}

(***************************************************************************)
(* app.py: convert_to_24_hour and the exceptions and responses of the      *)
(* /generate-kundali endpoint.  A detail is the tuple of the texts it is   *)
(* made of.                                                                *)
(***************************************************************************)
\* one of the two strptime calls of app.convert_to_24_hour succeeds
AppTimeParses(time_str) == Parses12(time_str) \/ Parses24(time_str)

\* app.convert_to_24_hour, for a string one of the two formats parses
app_convert_to_24_hour(time_str) ==
    IF Parses12(time_str) THEN FormatHM(Minutes12(time_str))
    ELSE FormatHM(Minutes24(time_str))

HTTPException(status_code, detail) ==
    [type |-> "HTTPException", status_code |-> status_code, detail |-> detail]

InvalidTimeFormat ==
    HTTPException(400, <<"Invalid time format. Use HH:MM (24-hour) or HH:MM AM/PM">>)
LocationNotFound == HTTPException(404, <<"Location not found:", "place">>)
TimezoneLookupFailed == HTTPException(500, <<"Timezone lookup failed">>)

\* str(e): the message of a built-in exception; for an HTTPException the empty
\* string or "<status_code>: <detail>", as the installed starlette has it
StrOfException(e) ==
    IF e.type = "HTTPException"
    THEN {<<>>, <<ToString(e.status_code) \o ":">> \o e.detail}
    ELSE {e.message}

\* raise HTTPException(status_code=500, detail=f"Kundali generation error: {str(e)}")
KundaliGenerationError(e, text) ==
    [status_code |-> 500, detail |-> <<"Kundali generation error:">> \o text]

\* return {"kundali": kundali_data}; the body is the report
KundaliResponse == [status_code |-> 200, detail |-> <<>>]

NoResponse == [status_code |-> 0, detail |-> <<>>]

\* no request to the endpoint is being handled
EndpointIdle ==
    /\ request_time = <<>>
    /\ time_24_hour = <<>>
    /\ location_results = "None"
    /\ zone_name = "None"
    /\ response = NoResponse

(***************************************************************************)
(* States calculate_kundali passes through, from which runs are started.   *)
(***************************************************************************)
\* no step of the chart has run
ChartIdle ==
    /\ eclip_deg = <<0, 0>>
    /\ asc_deg = <<0, 0>>
    /\ houses = <<>>
    /\ s_num = 0
    /\ planetary_sign = ""
    /\ planet_in_house = 0
    /\ asc_sign_num = 0
    /\ asc_sign_str = ""

\* no step of the dasha engine has run, for a birth at instant 0
DashaIdle ==
    /\ jd_birth = 0
    /\ moon_lon = <<0, 0>>
    /\ dasha_periods = <<>>
    /\ now_dasha = 0
    /\ current_dasha = None
    /\ now_antar = 0
    /\ antardasha_periods = <<>>
    /\ current_antardasha = None
    /\ nakshatra = ""
    /\ report = <<>>

\* the request as calculate_kundali receives it
RequestReceived(date, time_str, tz) ==
    /\ date_of_birth = date
    /\ time_of_birth = time_str
    /\ timezone = tz
    /\ time_24 = <<>>
    /\ raised = NoException

\* the request after calculate_julian_day has returned
RequestConverted(date, time_str, tz) ==
    /\ date_of_birth = date
    /\ time_of_birth = time_str
    /\ timezone = tz
    /\ time_24 = convert_to_24_hour(time_str)
    /\ raised = NoException

\* the swisseph calls made when calculate_houses has returned
CallsOfStep2 == <<SetSidMode>> \o PositionCalls \o HouseCalls

(***************************************************************************)
(* calculate_kundali, from the request to the report: the dasha runs.  The *)
(* followed body is the Moon.                                              *)
(***************************************************************************)
Init ==
    /\ pc = "time"
    /\ EndpointIdle
    /\ \E date \in 0..MaxBirthDay :
       \E time_str \in {FormatHM(m) : m \in BirthMinutes} \cup {<<"1", "3", ":", "9", "9">>} :
          RequestReceived(date, time_str, "UTC")
    /\ planet = "Moon"
    /\ \E L \in MoonLons : ephemeris = EphemerisFor("Moon", L, DefaultEphemeris["ASC"])
    /\ planetary_positions = <<>>
    /\ swe_calls = <<>>
    /\ house_rulers = <<>>
    /\ ChartIdle
    /\ DashaIdle

ConvertTo24Hour ==
    /\ pc = "time"
    /\ time_24' = convert_to_24_hour(time_of_birth)
    /\ pc' = "julian"
    /\ UNCHANGED httpVars
    /\ UNCHANGED <<date_of_birth, time_of_birth, timezone, raised>>
    /\ UNCHANGED <<jd_birth, moon_lon, dasha_periods, now_dasha, current_dasha, now_antar,
                   antardasha_periods, current_antardasha, nakshatra, report>>
    /\ UNCHANGED <<chartVars, rulerVars, sweVars>>

CalculateJulianDay ==
    /\ pc = "julian"
    /\ BirthDatetimeError(time_24, timezone) = NoException
    /\ jd_birth' = calculate_julian_day(date_of_birth, time_24, timezone)
    /\ pc' = "ephemeris"
    /\ UNCHANGED httpVars
    /\ UNCHANGED <<moon_lon, dasha_periods, now_dasha, current_dasha, now_antar,
                   antardasha_periods, current_antardasha, nakshatra, report>>
    /\ UNCHANGED <<chartVars, rulerVars, sweVars, timeVars>>

CalculateJulianDayRaises ==
    /\ pc = "julian"
    /\ BirthDatetimeError(time_24, timezone) # NoException
    /\ raised' = BirthDatetimeError(time_24, timezone)
    /\ pc' = "ValueError"
    /\ UNCHANGED httpVars
    /\ UNCHANGED <<date_of_birth, time_of_birth, timezone, time_24>>
    /\ UNCHANGED <<jd_birth, moon_lon, dasha_periods, now_dasha, current_dasha, now_antar,
                   antardasha_periods, current_antardasha, nakshatra, report>>
    /\ UNCHANGED <<chartVars, rulerVars, sweVars>>

\* swe.set_sid_mode of calculate_kundali, then calculate_planetary_positions
CalculatePlanetaryPositions ==
    /\ pc = "ephemeris"
    /\ planetary_positions' = calculate_planetary_positions(ephemeris)
    /\ swe_calls' = swe_calls \o <<SetSidMode>> \o PositionCalls
    /\ eclip_deg' = calculate_planetary_positions(ephemeris)[planet]
    /\ pc' = "houses"
    /\ UNCHANGED httpVars
    /\ UNCHANGED <<asc_deg, houses, s_num, planetary_sign, planet_in_house,
                   asc_sign_num, asc_sign_str, ephemeris>>
    /\ UNCHANGED <<jd_birth, moon_lon, dasha_periods, now_dasha, current_dasha, now_antar,
                   antardasha_periods, current_antardasha, nakshatra, report>>
    /\ UNCHANGED <<rulerVars, timeVars>>

CalculateHouses ==
    /\ pc = "houses"
    /\ houses' = WholeSignCusps(ephemeris["ASC"])
    /\ asc_deg' = ephemeris["ASC"]
    /\ swe_calls' = swe_calls \o HouseCalls
    /\ pc' = "positions"
    /\ UNCHANGED httpVars
    /\ UNCHANGED <<eclip_deg, s_num, planetary_sign, planet_in_house,
                   asc_sign_num, asc_sign_str, ephemeris, planetary_positions>>
    /\ UNCHANGED <<jd_birth, moon_lon, dasha_periods, now_dasha, current_dasha, now_antar,
                   antardasha_periods, current_antardasha, nakshatra, report>>
    /\ UNCHANGED <<rulerVars, timeVars>>

Placement ==
    /\ pc = "positions"
    /\ s_num' = BodySignNumber(eclip_deg)
    /\ planetary_sign' = sign_name(BodySignNumber(eclip_deg))
    /\ planet_in_house' = determine_house_for_planet(eclip_deg, houses)
    /\ asc_sign_num' = AscSignNumber(asc_deg)
    /\ asc_sign_str' = sign_name(AscSignNumber(asc_deg))
    /\ pc' = "placed"
    /\ UNCHANGED httpVars
    /\ UNCHANGED <<eclip_deg, asc_deg, houses>>
    /\ UNCHANGED <<jd_birth, moon_lon, dasha_periods, now_dasha, current_dasha,
                   now_antar, antardasha_periods, current_antardasha, nakshatra, report>>
    /\ UNCHANGED <<rulerVars, sweVars, timeVars>>

DetermineHouseRulers ==
    /\ pc = "placed"
    /\ house_rulers' = determine_house_rulers(asc_sign_num)
    /\ pc' = "jd"
    /\ UNCHANGED httpVars
    /\ UNCHANGED planet
    /\ UNCHANGED <<jd_birth, moon_lon, dasha_periods, now_dasha, current_dasha,
                   now_antar, antardasha_periods, current_antardasha, nakshatra, report>>
    /\ UNCHANGED <<chartVars, sweVars, timeVars>>

CalculateVimshottariDasha ==
    /\ pc = "jd"
    /\ moon_lon' = ephemeris["MOON"]
    /\ swe_calls' = Append(swe_calls, CalcUt("MOON"))
    /\ dasha_periods' = calculate_vimshottari_dasha(jd_birth, ephemeris["MOON"])
    /\ pc' = "dasha"
    /\ UNCHANGED httpVars
    /\ UNCHANGED <<jd_birth, now_dasha, current_dasha, now_antar,
                   antardasha_periods, current_antardasha, nakshatra, report>>
    /\ UNCHANGED <<ephemeris, planetary_positions>>
    /\ UNCHANGED <<chartVars, rulerVars, timeVars>>

GetCurrentDasha ==
    /\ pc = "dasha"
    /\ \E t \in NowCandidates(dasha_periods) :
          /\ now_dasha' = t
          /\ current_dasha' = get_current_dasha(dasha_periods, t)
    /\ pc' = "current"
    /\ UNCHANGED httpVars
    /\ UNCHANGED <<jd_birth, moon_lon, dasha_periods, now_antar,
                   antardasha_periods, current_antardasha, nakshatra, report>>
    /\ UNCHANGED <<chartVars, rulerVars, sweVars, timeVars>>

CalculateAntardasha ==
    /\ pc = "current"
    /\ \E delta \in 0..MaxClockDelta :
          /\ now_antar' = now_dasha + delta
          /\ antardasha_periods' = AntardashaPeriods(current_dasha)
          /\ current_antardasha' = calculate_antardasha(current_dasha, now_dasha + delta)
    /\ pc' = "antardasha"
    /\ UNCHANGED httpVars
    /\ UNCHANGED <<jd_birth, moon_lon, dasha_periods, now_dasha, current_dasha,
                   nakshatra, report>>
    /\ UNCHANGED <<chartVars, rulerVars, sweVars, timeVars>>

CalculateNakshatra ==
    /\ pc = "antardasha"
    /\ ~NakshatraLookupFails(ephemeris["MOON"])
    /\ swe_calls' = Append(swe_calls, CalcUt("MOON"))
    /\ nakshatra' = calculate_nakshatra(ephemeris["MOON"])
    /\ pc' = "nakshatra"
    /\ UNCHANGED httpVars
    /\ UNCHANGED <<jd_birth, moon_lon, dasha_periods, now_dasha, current_dasha,
                   now_antar, antardasha_periods, current_antardasha, report>>
    /\ UNCHANGED <<ephemeris, planetary_positions>>
    /\ UNCHANGED <<chartVars, rulerVars, timeVars>>

CalculateNakshatraRaises ==
    /\ pc = "antardasha"
    /\ NakshatraLookupFails(ephemeris["MOON"])
    /\ swe_calls' = Append(swe_calls, CalcUt("MOON"))
    /\ raised' = [type |-> "IndexError", message |-> <<"list index out of range">>]
    /\ pc' = "IndexError"
    /\ UNCHANGED httpVars
    /\ UNCHANGED <<jd_birth, moon_lon, dasha_periods, now_dasha, current_dasha,
                   now_antar, antardasha_periods, current_antardasha, nakshatra, report>>
    /\ UNCHANGED <<ephemeris, planetary_positions>>
    /\ UNCHANGED <<date_of_birth, time_of_birth, timezone, time_24>>
    /\ UNCHANGED <<chartVars, rulerVars>>

MakePersonalizedReport ==
    /\ pc = "nakshatra"
    /\ report' = make_personalized_report(
                     (planet :> planet_in_house), house_rulers,
                     dasha_periods, current_dasha, current_antardasha,
                     planetary_positions, (planet :> planetary_sign),
                     asc_sign_str, asc_deg, nakshatra)
    /\ pc' = "report"
    /\ UNCHANGED httpVars
    /\ UNCHANGED <<jd_birth, moon_lon, dasha_periods, now_dasha, current_dasha,
                   now_antar, antardasha_periods, current_antardasha, nakshatra>>
    /\ UNCHANGED <<chartVars, rulerVars, sweVars, timeVars>>

\* steps 6 and 7: the five divisional charts and the details of the request
ComputeDivisionalCharts ==
    /\ pc = "report"
    /\ report' = BaseReport(report, planet, eclip_deg, planetary_sign,
                            date_of_birth, time_of_birth, time_24, timezone)
    /\ pc' = "done"
    /\ UNCHANGED httpVars
    /\ UNCHANGED <<jd_birth, moon_lon, dasha_periods, now_dasha, current_dasha,
                   now_antar, antardasha_periods, current_antardasha, nakshatra>>
    /\ UNCHANGED <<chartVars, rulerVars, sweVars, timeVars>>

Next ==
    \/ ConvertTo24Hour
    \/ CalculateJulianDay
    \/ CalculateJulianDayRaises
    \/ CalculatePlanetaryPositions
    \/ CalculateHouses
    \/ Placement
    \/ DetermineHouseRulers
    \/ CalculateVimshottariDasha
    \/ GetCurrentDasha
    \/ CalculateAntardasha
    \/ CalculateNakshatra
    \/ CalculateNakshatraRaises
    \/ MakePersonalizedReport
    \/ ComputeDivisionalCharts

Spec == Init /\ [][Next]_vars

(***************************************************************************)
(* Steps 1 and 2 up to calculate_houses, for many time strings, timezones  *)
(* and node longitudes: the input runs.                                    *)
(***************************************************************************)
InitInputs ==
    /\ pc = "time"
    /\ EndpointIdle
    /\ \E time_str \in TimeStrings : \E tz \in TimezoneNames :
          RequestReceived(0, time_str, tz)
    /\ planet \in {"Moon", "Rahu", "Ketu"}
    /\ \E r \in RahuLons : ephemeris = [DefaultEphemeris EXCEPT !["TRUE_NODE"] = r]
    /\ planetary_positions = <<>>
    /\ swe_calls = <<>>
    /\ house_rulers = <<>>
    /\ ChartIdle
    /\ DashaIdle

NextInputs ==
    \/ ConvertTo24Hour
    \/ CalculateJulianDay
    \/ CalculateJulianDayRaises
    \/ CalculatePlanetaryPositions
    \/ CalculateHouses

SpecInputs == InitInputs /\ [][NextInputs]_vars

(***************************************************************************)
(* Step 2 from the loop over the positions on, for many longitudes and     *)
(* ascendants: the chart runs.  They start when calculate_houses has       *)
(* returned, for a birth at instant 0.                                     *)
(***************************************************************************)
InitChart ==
    /\ pc = "positions"
    /\ EndpointIdle
    /\ asc_deg \in AscLons
    /\ houses = WholeSignCusps(asc_deg)
    /\ eclip_deg \in BodyLons
    /\ s_num = 0
    /\ planetary_sign = ""
    /\ planet_in_house = 0
    /\ asc_sign_num = 0
    /\ asc_sign_str = ""
    /\ DashaIdle
    /\ planet = "Sun"
    /\ house_rulers = <<>>
    /\ ephemeris = EphemerisFor("Sun", eclip_deg, asc_deg)
    /\ planetary_positions = calculate_planetary_positions(ephemeris)
    /\ swe_calls = CallsOfStep2
    /\ RequestConverted(0, FormatHM(0), "UTC")

NextChart ==
    \/ Placement
    \/ DetermineHouseRulers

SpecChart == InitChart /\ [][NextChart]_vars

(***************************************************************************)
(* Steps 5 to 7, for every body, sign and house: the report runs.  They    *)
(* start when calculate_nakshatra has returned, for a birth at 12:34 of    *)
(* day 0 and a clock that reads the middle of the fifth Mahadasha.         *)
(***************************************************************************)
ReportAscLons == {<<30 * s + 12, 3456789>> : s \in 0..11}

InitReport ==
    /\ pc = "nakshatra"
    /\ EndpointIdle
    /\ planet \in BodySet
    /\ eclip_deg \in ReportLons
    /\ asc_deg \in ReportAscLons
    /\ ephemeris = EphemerisFor(planet, eclip_deg, asc_deg)
    /\ ~NakshatraLookupFails(ephemeris["MOON"])
    /\ planetary_positions = calculate_planetary_positions(ephemeris)
    /\ houses = WholeSignCusps(asc_deg)
    /\ s_num = BodySignNumber(eclip_deg)
    /\ planetary_sign = sign_name(BodySignNumber(eclip_deg))
    /\ planet_in_house = determine_house_for_planet(eclip_deg, houses)
    /\ asc_sign_num = AscSignNumber(asc_deg)
    /\ asc_sign_str = sign_name(AscSignNumber(asc_deg))
    /\ house_rulers = determine_house_rulers(asc_sign_num)
    /\ RequestConverted(0, FormatHM(754), "UTC")
    /\ jd_birth = calculate_julian_day(0, FormatHM(754), "UTC")
    /\ moon_lon = ephemeris["MOON"]
    /\ dasha_periods = calculate_vimshottari_dasha(jd_birth, moon_lon)
    /\ now_dasha = (dasha_periods[5].start_date + dasha_periods[5].end_date) \div 2
    /\ current_dasha = get_current_dasha(dasha_periods, now_dasha)
    /\ now_antar = now_dasha
    /\ antardasha_periods = AntardashaPeriods(current_dasha)
    /\ current_antardasha = calculate_antardasha(current_dasha, now_antar)
    /\ nakshatra = calculate_nakshatra(ephemeris["MOON"])
    /\ swe_calls = CallsOfStep2 \o <<CalcUt("MOON"), CalcUt("MOON")>>
    /\ report = <<>>

NextReport ==
    \/ MakePersonalizedReport
    \/ ComputeDivisionalCharts

SpecReport == InitReport /\ [][NextReport]_vars

(***************************************************************************)
(* generate_kundali of app.py: the request to /generate-kundali, from the  *)
(* time conversion over the two lookups and calculate_kundali to the       *)
(* response.  The geocoder and the timezone service answer as the          *)
(* environment has it.  The requests: a time in each format and one in     *)
(* neither; the Moon at 15.0 and at 27 x 13.3333333, for which the lookup  *)
(* of calculate_nakshatra fails.                                           *)
(***************************************************************************)
InitEndpoint ==
    /\ pc = "request"
    /\ request_time \in { << "0", "7", ":", "3", "0", " ", "P", "M" >>,
                          << "1", "2", ":", "3", "4" >>,
                          << "1", "3", ":", "9", "9" >> }
    /\ time_24_hour = <<>>
    /\ location_results \in {"found", "empty"}
    /\ zone_name \in {"UTC", "Mars_Phobos", "None"}
    /\ response = NoResponse
    /\ date_of_birth = 0
    /\ time_of_birth = <<>>
    /\ timezone = ""
    /\ time_24 = <<>>
    /\ raised = NoException
    /\ planet = "Moon"
    /\ \E L \in {<<15, 0>>, KTimesSpan(27)} :
          ephemeris = EphemerisFor("Moon", L, DefaultEphemeris["ASC"])
    /\ planetary_positions = <<>>
    /\ swe_calls = <<>>
    /\ house_rulers = <<>>
    /\ ChartIdle
    /\ DashaIdle

\* time_24_hour = convert_to_24_hour(data.time_of_birth)
AppConvertTo24Hour ==
    /\ pc = "request"
    /\ AppTimeParses(request_time)
    /\ time_24_hour' = app_convert_to_24_hour(request_time)
    /\ pc' = "geocode"
    /\ UNCHANGED <<request_time, location_results, zone_name, response>>
    /\ UNCHANGED <<jd_birth, moon_lon, dasha_periods, now_dasha, current_dasha, now_antar,
                   antardasha_periods, current_antardasha, nakshatra, report>>
    /\ UNCHANGED <<chartVars, rulerVars, sweVars, timeVars>>

\* convert_to_24_hour raises HTTPException(status_code=400, ...)
AppConvertRaises ==
    /\ pc = "request"
    /\ ~AppTimeParses(request_time)
    /\ raised' = InvalidTimeFormat
    /\ pc' = "except"
    /\ UNCHANGED <<date_of_birth, time_of_birth, timezone, time_24>>
    /\ UNCHANGED httpVars
    /\ UNCHANGED <<jd_birth, moon_lon, dasha_periods, now_dasha, current_dasha, now_antar,
                   antardasha_periods, current_antardasha, nakshatra, report>>
    /\ UNCHANGED <<chartVars, rulerVars, sweVars>>

\* the geocoder answers with results: latitude and longitude are read
Geocode ==
    /\ pc = "geocode"
    /\ location_results = "found"
    /\ pc' = "timezonedb"
    /\ UNCHANGED httpVars
    /\ UNCHANGED <<jd_birth, moon_lon, dasha_periods, now_dasha, current_dasha, now_antar,
                   antardasha_periods, current_antardasha, nakshatra, report>>
    /\ UNCHANGED <<chartVars, rulerVars, sweVars, timeVars>>

\* if not location_response["results"]: raise HTTPException(status_code=404, ...)
GeocodeRaises ==
    /\ pc = "geocode"
    /\ location_results = "empty"
    /\ raised' = LocationNotFound
    /\ pc' = "except"
    /\ UNCHANGED <<date_of_birth, time_of_birth, timezone, time_24>>
    /\ UNCHANGED httpVars
    /\ UNCHANGED <<jd_birth, moon_lon, dasha_periods, now_dasha, current_dasha, now_antar,
                   antardasha_periods, current_antardasha, nakshatra, report>>
    /\ UNCHANGED <<chartVars, rulerVars, sweVars>>

\* timezone = timezone_response["zoneName"], then the call of calculate_kundali
\* with time_of_birth=time_24_hour and timezone=timezone
TimezoneLookup ==
    /\ pc = "timezonedb"
    /\ zone_name # "None"
    /\ time_of_birth' = time_24_hour
    /\ timezone' = zone_name
    /\ pc' = "time"
    /\ UNCHANGED <<date_of_birth, time_24, raised>>
    /\ UNCHANGED httpVars
    /\ UNCHANGED <<jd_birth, moon_lon, dasha_periods, now_dasha, current_dasha, now_antar,
                   antardasha_periods, current_antardasha, nakshatra, report>>
    /\ UNCHANGED <<chartVars, rulerVars, sweVars>>

\* if "zoneName" not in timezone_response: raise HTTPException(status_code=500, ...)
TimezoneLookupRaises ==
    /\ pc = "timezonedb"
    /\ zone_name = "None"
    /\ raised' = TimezoneLookupFailed
    /\ pc' = "except"
    /\ UNCHANGED <<date_of_birth, time_of_birth, timezone, time_24>>
    /\ UNCHANGED httpVars
    /\ UNCHANGED <<jd_birth, moon_lon, dasha_periods, now_dasha, current_dasha, now_antar,
                   antardasha_periods, current_antardasha, nakshatra, report>>
    /\ UNCHANGED <<chartVars, rulerVars, sweVars>>

\* return {"kundali": kundali_data}
ReturnKundali ==
    /\ pc = "done"
    /\ response' = KundaliResponse
    /\ pc' = "responded"
    /\ UNCHANGED <<request_time, time_24_hour, location_results, zone_name>>
    /\ UNCHANGED <<jd_birth, moon_lon, dasha_periods, now_dasha, current_dasha, now_antar,
                   antardasha_periods, current_antardasha, nakshatra, report>>
    /\ UNCHANGED <<chartVars, rulerVars, sweVars, timeVars>>

\* except Exception as e: whatever was raised inside the try block, by the
\* handler or by calculate_kundali, is answered with the generic error
ExceptException ==
    /\ pc \in {"except", "ValueError", "IndexError"}
    /\ \E text \in StrOfException(raised) :
          response' = KundaliGenerationError(raised, text)
    /\ pc' = "responded"
    /\ UNCHANGED <<request_time, time_24_hour, location_results, zone_name>>
    /\ UNCHANGED <<jd_birth, moon_lon, dasha_periods, now_dasha, current_dasha, now_antar,
                   antardasha_periods, current_antardasha, nakshatra, report>>
    /\ UNCHANGED <<chartVars, rulerVars, sweVars, timeVars>>

NextEndpoint ==
    \/ AppConvertTo24Hour
    \/ AppConvertRaises
    \/ Geocode
    \/ GeocodeRaises
    \/ TimezoneLookup
    \/ TimezoneLookupRaises
    \/ ReturnKundali
    \/ ExceptException
    \/ ConvertTo24Hour
    \/ CalculateJulianDay
    \/ CalculateJulianDayRaises
    \/ CalculatePlanetaryPositions
    \/ CalculateHouses
    \/ Placement
    \/ DetermineHouseRulers
    \/ CalculateVimshottariDasha
    \/ GetCurrentDasha
    \/ CalculateAntardasha
    \/ CalculateNakshatra
    \/ CalculateNakshatraRaises
    \/ MakePersonalizedReport
    \/ ComputeDivisionalCharts

SpecEndpoint == InitEndpoint /\ [][NextEndpoint]_vars

(***************************************************************************)
(* The claims.                                                             *)
(***************************************************************************)
\* the fixed order and the canonical years, as the specification states them
CanonicalOrder ==
    << "Ketu", "Venus", "Sun", "Moon", "Mars", "Rahu", "Jupiter", "Saturn", "Mercury" >>
CanonicalYears == << 7, 20, 6, 10, 7, 18, 16, 19, 17 >>
CanonicalYearsOf(b) ==
    CanonicalYears[CHOOSE i \in 1..9 : CanonicalOrder[i] = b]
\* 365.25 days, in ticks
JulianYear == (1461 * 24 * 60) \div 4

Abs(x) == IF x < 0 THEN -x ELSE x
DashaBuilt ==
    pc \in {"dasha", "current", "antardasha", "nakshatra", "report", "done", "IndexError"}
DashaFound == pc \in {"current", "antardasha", "nakshatra", "report", "done", "IndexError"}
AntardashaFound == pc \in {"antardasha", "nakshatra", "report", "done", "IndexError"}
Duration(period) == period.end_date - period.start_date

C2_TotalIs120Years ==
    DashaBuilt =>
        Abs((dasha_periods[9].end_date - jd_birth) - 120 * JulianYear) <= 1

\* the part of the first body's canonical duration that had elapsed at birth:
\* nakshatra_pada x years x 365.25 days, rounded to a tick
ElapsedOfFirst ==
    LET pada == nakshatra_pada(moon_lon)
    IN  RoundHalfEven(
            MulDivQR(CanonicalYearsOf(dasha_periods[1].planet) * JulianYear,
                     pada[1], pada[2]),
            pada[2])

\* C2, amended: the 9 durations sum to 120 x 365.25 days less the elapsed part
\* of the first Mahadasha (to within one tick of rounding); the last period
\* ends 120 years after birth only when nothing of the first one has elapsed.
C2_TotalIs120YearsLessElapsed ==
    DashaBuilt =>
        LET total == dasha_periods[9].end_date - jd_birth
        IN  /\ Abs(total - (120 * JulianYear - ElapsedOfFirst)) <= 1
            /\ total <= 120 * JulianYear
            /\ (total = 120 * JulianYear) => (ElapsedOfFirst = 0)

\* C2's case: the Moon is well inside its nakshatra and the periods built end
\* more than a day short of 120 years.
C2_Witness ==
    /\ pc = "dasha"
    /\ ElapsedOfFirst > DayTicks
    /\ dasha_periods[9].end_date - jd_birth < 120 * JulianYear - DayTicks

TrueFraction(L) ==
    LET M == LonMod360(L)
    IN  <<(((3 * M[1]) % 40) * Scale + 3 * M[2]) % (40 * Scale), 40 * Scale>>

\* C4: the first Mahadasha lasts (1 - fraction) x the first body's canonical
\* years x 365.25 days (to within one tick of rounding), fraction being
\* (L mod (360/27)) / (360/27); for the Moon at 15.0 the first body is Venus
\* and the first period lasts 17.5 years.
C4_FirstPeriodDuration ==
    DashaBuilt =>
        LET first == dasha_periods[1]
            f     == TrueFraction(moon_lon)
            want  == RoundHalfEven(
                         MulDivQR(CanonicalYearsOf(first.planet) * JulianYear,
                                  f[2] - f[1], f[2]),
                         f[2])
        IN  /\ Abs(Duration(first) - want) <= 1
            /\ moon_lon = <<15, 0>> =>
                  /\ first.planet = "Venus"
                  /\ Duration(first) = (35 * JulianYear) \div 2

\* C5: the current Mahadasha is the one period whose half-open interval
\* [start, end) holds the present instant, and none when no interval holds it.
C5_HalfOpenCurrent ==
    DashaFound =>
        LET inside == {i \in 1..9 : /\ dasha_periods[i].start_date <= now_dasha
                                    /\ now_dasha < dasha_periods[i].end_date}
        IN  /\ Cardinality(inside) <= 1
            /\ inside = {} => current_dasha = None
            /\ \A i \in inside : current_dasha = dasha_periods[i]

\* the present instant is before the first period or after the last one
OutsideAllPeriods ==
    \/ now_dasha < dasha_periods[1].start_date
    \/ now_dasha > dasha_periods[9].end_date

C7_AntardashaCovers ==
    (AntardashaFound /\ current_dasha # None) =>
        /\ Len(antardasha_periods) = 9
        /\ antardasha_periods[1].start_date = current_dasha.start_date
        /\ \A i \in 1..8 :
              antardasha_periods[i].end_date = antardasha_periods[i + 1].start_date
        /\ antardasha_periods[9].end_date = current_dasha.end_date

\* SignOf of a longitude in [0, 360)
SignOf(L) == L[1] \div 30 + 1

\* C8: the sign number of a body and of the ascendant is SignOf(L mod 360),
\* lies in 1..12, and its name is never "Unknown".
C8_SignWraps ==
    pc = "placed" =>
        /\ s_num = SignOf(LonMod360(eclip_deg))
        /\ s_num \in 1..12
        /\ planetary_sign # "Unknown"
        /\ asc_sign_num = SignOf(LonMod360(asc_deg))
        /\ asc_sign_num \in 1..12
        /\ asc_sign_str # "Unknown"

\* C9: for a longitude in [0, 360) exactly one index passes the interval test
\* of determine_house_for_planet, and the house returned is that index + 1.
C9_HousesPartition ==
    (pc = "placed" /\ LonLE(<<0, 0>>, eclip_deg) /\ LonLT(eclip_deg, <<360, 0>>)) =>
        LET hits == {i \in 0..11 : IntervalTest(i, eclip_deg, houses)}
        IN  /\ Cardinality(hits) = 1
            /\ \A i \in hits : planet_in_house = i + 1

\* floor((L mod 360) / (360/27)) = floor(3 (L mod 360) / 40)
TrueNakshatraIndex(L) ==
    LET M == LonMod360(L)
    IN  (3 * M[1] + (3 * M[2]) \div Scale) \div 40

\* C10: the nakshatra index of calculate_nakshatra and of
\* calculate_vimshottari_dasha is floor((L mod 360) / (360/27)), lies in 0..26,
\* and the lookup in the 27 names never goes out of range.
C10_NakshatraIndex ==
    /\ nakshatra_number(moon_lon) = TrueNakshatraIndex(moon_lon)
    /\ nakshatra_num(moon_lon) - 1 = TrueNakshatraIndex(moon_lon)
    /\ nakshatra_number(moon_lon) \in 0..26
    /\ pc # "IndexError"

\* calculate_planetary_positions has returned
PositionsCalculated == pc \notin {"time", "julian", "ephemeris", "ValueError"}

\* the body codes swe.calc_ut can be asked for: there is none for Ketu
SweBodyCodes ==
    {"SUN", "MOON", "MARS", "MERCURY", "JUPITER", "VENUS", "SATURN", "TRUE_NODE"}

\* C11: the Ketu longitude of planetary_positions is the Rahu longitude of
\* planetary_positions plus 180 degrees, brought back into [0, 360), and every
\* query of the ephemeris names one of its 8 body codes, never Ketu.
C11_KetuOppositeRahu ==
    PositionsCalculated =>
        LET rahu == planetary_positions["Rahu"]
            ketu == planetary_positions["Ketu"]
            sum  == rahu[1] + 180
        IN  /\ rahu = ephemeris["TRUE_NODE"]
            /\ ketu = <<IF sum >= 360 THEN sum - 360 ELSE sum, rahu[2]>>
            /\ LonLE(<<0, 0>>, ketu) /\ LonLT(ketu, <<360, 0>>)
            /\ \A i \in 1..Len(swe_calls) :
                  swe_calls[i].fn = "calc_ut" => swe_calls[i].arg \in SweBodyCodes

\* C11's case: the positions are calculated for a node at 270.5 degrees, whose
\* opposite point lies past 360 and is reported as 90.5.
C11_Witness ==
    /\ pc = "houses"
    /\ planetary_positions["Rahu"] = <<270, 5000000>>
    /\ planetary_positions["Ketu"] = <<90, 5000000>>
    /\ Len(swe_calls) = 11

\* the key of the report that holds the chart of N sub-lots
DivisionalKey(N) ==
    CASE N = 7  -> "D7"
      [] N = 9  -> "D9"
      [] N = 10 -> "D10"
      [] N = 12 -> "D12"
      [] N = 60 -> "D60"

\* min(floor((L mod 30) / (30/N)), N - 1)
TrueSlot(L, N) == Min({MulDivQR(N, LocalDeg(L), 30 * Scale)[1], N - 1})

\* C12: for each N in {7, 9, 10, 12, 60} the divisional chart reports, for the
\* body, the sign at 0-based position min(floor((L mod 30) / (30/N)), N - 1) of
\* the table row of the body's D1 sign; at local degree 0 with N = 9 it is the
\* first sign of the row.
C12_DivisionalSlot ==
    pc = "done" =>
        /\ \A N \in {7, 9, 10, 12, 60} :
              report[DivisionalKey(N)][planet].sign
                  = sign_sequence_func(N, planetary_sign)[TrueSlot(eclip_deg, N) + 1]
        /\ LocalDeg(eclip_deg) = 0 =>
              report["D9"][planet].sign = d9_sign_sequence(planetary_sign)[1]

\* C13: the D12 table row of each of the 12 signs is the cycle of the 12 signs
\* started at that sign, and a body whose local degree lies in [0, 30/12) gets
\* its own D1 sign as D12 sign.
C13_D12StartsAtOwnSign ==
    /\ \A k \in 1..12 : \A j \in 1..12 :
          d12_sign_sequence(SIGNS[k])[j] = SIGNS[((k + j - 2) % 12) + 1]
    /\ (/\ pc = "done"
        /\ \E k \in 1..12 : planetary_sign = SIGNS[k]
        /\ LocalDeg(eclip_deg) < (30 * Scale) \div 12)
       => report["D12"][planet].sign = planetary_sign

\* C13's case: a body in Pisces just below 2.5 degrees of the sign, whose D12
\* chart has been computed.
C13_Witness ==
    /\ pc = "done"
    /\ planetary_sign = "Pisces"
    /\ eclip_deg = <<332, 4999999>>
    /\ report["D12"][planet].sign = "Pisces"

\* the classical ruling body of the signs 1..12
ClassicalRuler ==
    << "Mars", "Venus", "Mercury", "Moon", "Sun", "Mercury", "Venus", "Mars",
       "Jupiter", "Saturn", "Saturn", "Jupiter" >>

\* determine_house_rulers has returned
RulersDetermined ==
    pc \notin {"time", "julian", "ephemeris", "houses", "positions", "placed", "ValueError"}

\* C14: house h of 1..12 is given the classical ruler of the sign of index
\* (A + h - 2) mod 12 + 1, A being the ascendant sign index; house 1 gets the
\* ruler of the ascendant sign, house 5 gets Sun when A is 1, and no house gets
\* "Unknown".
C14_HouseRulers ==
    RulersDetermined =>
        /\ DOMAIN house_rulers = 1..12
        /\ \A h \in 1..12 :
              house_rulers[h] = ClassicalRuler[((asc_sign_num + h - 2) % 12) + 1]
        /\ asc_sign_num \in 1..12 => house_rulers[1] = ClassicalRuler[asc_sign_num]
        /\ asc_sign_num = 1 => house_rulers[5] = "Sun"
        /\ \A h \in 1..12 : house_rulers[h] # "Unknown"

\* C14's case: the rulers are determined for an ascendant in Aquarius (A = 11),
\* whose third house is Aries, past the end of the cycle of signs.
C14_Witness ==
    /\ pc = "jd"
    /\ asc_sign_num = 11
    /\ house_rulers[1] = "Saturn"
    /\ house_rulers[3] = "Mars"

\* the per-body entries of the report are built
ReportMade == pc \in {"report", "done"}

\* the house in which a body has directional strength
DigBalaHouse ==
    [Sun |-> 1, Mars |-> 10, Jupiter |-> 1, Moon |-> 4, Venus |-> 7, Mercury |-> 7,
     Saturn |-> 10]

\* the label the priority order exalted, debilitated, owned, neutral gives
PriorityLabel(p, sign) ==
    LET exalted == p \in DOMAIN exalt /\ sign = exalt[p]
        debilitated == p \in DOMAIN debil /\ sign = debil[p]
        owned == p \in DOMAIN owns /\ sign \in owns[p]
    IN  CASE exalted -> "Exalted"
          [] ~exalted /\ debilitated -> "Debilitated"
          [] ~exalted /\ ~debilitated /\ owned -> "Strong"
          [] OTHER -> "Neutral"

\* C15: the strength of a body is the label of the first that applies of
\* exalted, debilitated, owned ("Strong") and "Neutral", so that Mercury in
\* Virgo is exalted and not strong; " + Dig Bala" is appended, whatever the
\* label, exactly when the body is in its Dig Bala house; Rahu and Ketu are
\* always plain "Neutral".
C15_StrengthPriority ==
    ReportMade =>
        LET strength == report[planet].strength
            label == PriorityLabel(planet, planetary_sign)
            directional ==
                planet \in DOMAIN DigBalaHouse /\ planet_in_house = DigBalaHouse[planet]
        IN  /\ directional => strength = label \o " + Dig Bala"
            /\ ~directional => strength = label
            /\ (planet = "Mercury" /\ planetary_sign = "Virgo") =>
                  strength \in {"Exalted", "Exalted + Dig Bala"}
            /\ planet \in {"Rahu", "Ketu"} => strength = "Neutral"

\* C15's case: Mercury in Virgo, a sign it both owns and is exalted in, in the
\* seventh house, its Dig Bala house.
C15_Witness ==
    /\ pc = "report"
    /\ planet = "Mercury"
    /\ planetary_sign = "Virgo"
    /\ planet_in_house = 7
    /\ report["Mercury"].strength = "Exalted + Dig Bala"

\* a time string neither "%I:%M %p" nor "%H:%M" parses
ParsesNeither(s) == ~Parses12(s) /\ ~Parses24(s)

\* the kind of error a request with a good time and an unknown timezone gets
UnknownTimezoneKind == BirthDatetimeError(FormatHM(0), "Mars_Phobos").type

\* C16: a time string that parses in neither format makes calculate_kundali
\* fail at parse time, before anything else is done with the string, with a
\* dedicated InvalidTimeFormat error, which is of another kind than the error
\* of an unknown timezone; the string is never passed on as the 24-hour time.
C16_InvalidTimeFormat ==
    (pc # "time" /\ ParsesNeither(time_of_birth)) =>
        /\ raised.type = "InvalidTimeFormat"
        /\ raised.type # UnknownTimezoneKind
        /\ time_24 # time_of_birth

\* calculate_kundali has returned the report
ReportReturned == pc = "done"

\* the top-level keys the report is to have
TopLevelKeys ==
    {"Mahadasha", "Antardasha", "kundali_summary", "planetary_positions",
     "planet_in_houses", "house_rulers", "dasha_periods", "current_dasha",
     "current_antardasha", "D7", "D9", "D10", "D12", "D60"}

\* C17 as stated: in the report calculate_kundali returns, the entry of a body
\* has exactly the keys house, house_ruler, strength, benefic, position and
\* sign, and the report has the 14 top-level keys.
C17_ReportKeys ==
    ReportReturned =>
        /\ planet \in DOMAIN report
        /\ DOMAIN report[planet] =
              {"house", "house_ruler", "strength", "benefic", "position", "sign"}
        /\ TopLevelKeys \subseteq DOMAIN report

\* C17 amended: the sixth key of the entry of a body is planetary_sign; the
\* entry holds the house, its ruler, a strength text, a boolean, the longitude
\* and the sign name of the body, and the report has the 14 top-level keys.
C17_ReportKeysPlanetarySign ==
    ReportReturned =>
        /\ planet \in DOMAIN report
        /\ DOMAIN report[planet] =
              {"house", "house_ruler", "strength", "benefic", "position",
               "planetary_sign"}
        /\ report[planet].benefic \in BOOLEAN
        /\ report[planet].house = planet_in_house
        /\ report[planet].position = eclip_deg
        /\ report[planet].planetary_sign = planetary_sign
        /\ TopLevelKeys \subseteq DOMAIN report
        /\ \A N \in {7, 9, 10, 12, 60} :
              DOMAIN report[DivisionalKey(N)][planet] = {"degree", "sign"}

\* C17's case: a report is returned in which the entry of Saturn carries its
\* sign under planetary_sign and its entry of the D60 chart under sign.
C17_Witness ==
    /\ pc = "done"
    /\ planet = "Saturn"
    /\ "planetary_sign" \in DOMAIN report["Saturn"]
    /\ "sign" \notin DOMAIN report["Saturn"]
    /\ "sign" \in DOMAIN report["D60"]["Saturn"]

\* the calls that ask the ephemeris for a longitude or for the houses
IsQuery(call) == call.fn \in {"calc_ut", "houses_ex"}

\* C18: in the sequence of the calls the process makes to the ephemeris, the
\* sidereal mode is set to Lahiri immediately before every longitude or house
\* query, the Moon queries of calculate_vimshottari_dasha and
\* calculate_nakshatra included: nothing comes between the set and the query.
C18_SidModeSetBeforeEveryQuery ==
    \A i \in 1..Len(swe_calls) :
        IsQuery(swe_calls[i]) => (i > 1 /\ swe_calls[i - 1] = SetSidMode)

\* the report the run of the state returns when its clock reads t1 in
\* get_current_dasha and t2 in calculate_antardasha
ReportOfRunAt(t1, t2) ==
    LET dasha == get_current_dasha(dasha_periods, t1)
        antar == calculate_antardasha(dasha, t2)
    IN  BaseReport(
            make_personalized_report(
                (planet :> planet_in_house), house_rulers,
                dasha_periods, dasha, antar,
                planetary_positions, (planet :> planetary_sign),
                asc_sign_str, asc_deg, nakshatra),
            planet, eclip_deg, planetary_sign,
            date_of_birth, time_of_birth, time_24, timezone)

\* two clocks of other runs with the same request and the same answers of the
\* ephemeris: the middle of the first Mahadasha, and past the last one
ClockInFirstDasha == (dasha_periods[1].start_date + dasha_periods[1].end_date) \div 2
ClockPastLastDasha == dasha_periods[Len(dasha_periods)].end_date + 1

\* the keys of the report whose value is read off the clock
ClockKeys ==
    {"current_dasha", "current_antardasha", "Mahadasha", "Antardasha", "kundali_summary"}

\* C19 as stated: a run returns the report the run with the same request and
\* the same answers of the ephemeris returns at another wall-clock time, here
\* in the middle of the first Mahadasha.
C19_SameReportWhateverTheClock ==
    ReportReturned => report = ReportOfRunAt(ClockInFirstDasha, ClockInFirstDasha)

\* C19 amended: the reports of two such runs have the same keys and agree on
\* every key but current_dasha, current_antardasha, Mahadasha, Antardasha and
\* kundali_summary; they agree on these too when the clocks of the two runs
\* read the same.
C19_SameReportButClockKeys ==
    ReportReturned =>
        /\ \A t \in {ClockInFirstDasha, ClockPastLastDasha} :
              LET other == ReportOfRunAt(t, t)
              IN  /\ DOMAIN report = DOMAIN other
                  /\ \A k \in (DOMAIN report) \ ClockKeys : report[k] = other[k]
        /\ report = ReportOfRunAt(now_dasha, now_antar)

\* C19's case: a report returned when the clock is past the first Mahadasha,
\* which differs from the one of the run in the first Mahadasha in
\* current_dasha and in the summary, and has the same dasha_periods.
C19_Witness ==
    /\ pc = "done"
    /\ now_dasha > dasha_periods[1].end_date
    /\ report["current_dasha"] # dasha_periods[1]
    /\ report["kundali_summary"] #
          ReportOfRunAt(ClockInFirstDasha, ClockInFirstDasha)["kundali_summary"]
    /\ report["dasha_periods"] =
          ReportOfRunAt(ClockInFirstDasha, ClockInFirstDasha)["dasha_periods"]

\* C20: with whole-sign cusps and a longitude L in [0, 360) the house of a body
\* is ((SignOf(L) - SignOf(cusp[0])) mod 12) + 1, the house whose arc of 30
\* degrees contains L, also for the arc that ends at the wrap from 360 to 0;
\* the house ruler reported for the body is then the ruler of its sign.
C20_WholeSignHouse ==
    (pc = "jd" /\ LonLE(<<0, 0>>, eclip_deg) /\ LonLT(eclip_deg, <<360, 0>>)) =>
        /\ planet_in_house = ((SignOf(eclip_deg) - SignOf(houses[1])) % 12) + 1
        /\ house_rulers[planet_in_house] = ClassicalRuler[SignOf(eclip_deg)]

\* C21: whenever get_current_dasha finds a current Mahadasha,
\* calculate_antardasha finds a current Antardasha: the 9 Antardashas cover
\* the instant at which the Mahadasha was found, and current_antardasha is
\* None only when current_dasha is None, also when calculate_antardasha reads
\* the clock a little later than get_current_dasha.
C21_AntardashaWheneverDasha ==
    (AntardashaFound /\ current_dasha # None) =>
        /\ \E i \in 1..Len(antardasha_periods) :
              /\ antardasha_periods[i].start_date <= now_dasha
              /\ now_dasha <= antardasha_periods[i].end_date
        /\ current_antardasha # None

\* the response that carries the status code and the detail of an HTTPException
ResponseOf(e) == [status_code |-> e.status_code, detail |-> e.detail]

\* C22: an HTTPException raised inside generate_kundali (400 for the time
\* format, 404 for the place, 500 for the timezone lookup) reaches the client
\* with its own status code and detail, and is not replaced by the generic 500
\* "Kundali generation error".
C22_HTTPExceptionReachesClient ==
    (pc = "responded" /\ raised.type = "HTTPException") =>
        /\ response = ResponseOf(raised)
        /\ response.detail[1] # "Kundali generation error:"

====
